---- MODULE Spec2Model ----
(***************************************************************************)
(* A model of the Gemini book generator (src/main.py): the cached,         *)
(* retrying generation call, the two-level outline parser and the main     *)
(* pipeline that assembles the section bodies and renders the outputs.     *)
(*                                                                         *)
(* Texts are TLA+ strings; the string operations of Python that the code   *)
(* uses (strip, rstrip, split, the two regular expressions) are computed   *)
(* character by character.                                                 *)
(***************************************************************************)
EXTENDS Integers, Sequences, FiniteSets, TLC

VARIABLES
    \* ---- persistent storage and the running generate_with_gemini call
    cache,            \* api_cache/: digest -> stored entry (files that exist)
    gpc,              \* position inside generate_with_gemini
    prompt_text,      \* its argument
    retries,          \* its argument
    attempt,          \* loop variable of "for attempt in range(retries)"
    api_result_text,  \* local variable (None or stripped text)
    result,           \* the value returned by the call
    \* ---- history of the running call (observation only)
    log,              \* external calls and sleeps of the running call, in order
    startEntry,       \* what the cache held for the prompt when the call began
    cache0,           \* the cache as it was when the call began
    callNo,           \* number of generate calls started so far
    persisted,        \* {[prompt, text, call]}: accepted texts written to cache
    \* ---- the main program
    pc,               \* position inside the __main__ block
    book_title,
    toc_raw_text,
    parsed_toc_structure,
    all_sections_content,
    chapter_i,        \* index of the chapter the section loop is at
    section_i,        \* index of the next section inside that chapter
    genOrder,         \* the section calls made so far, each with its result
    stageFail,        \* stages whose generate call returned a failure
    pdf_success,
    docx_success,
    \* ---- parse_toc run line by line on a drawn input
    toc_text,         \* the argument of parse_toc
    lines,            \* toc_text.strip().split('\n')
    line_i,           \* index of the next line
    parsed_toc,       \* the OrderedDict under construction
    current_chapter_title,
    parse_result,     \* the value returned by parse_toc
    \* ---- create_pdf run step by step on a drawn outline
    pdf_pc,           \* position inside create_pdf
    pdf_parsed_toc,   \* its argument parsed_toc
    page_map,         \* the dict page_map of pass 1
    page_no,          \* pdf_content.page_no()
    pdf_ci,           \* index of the chapter a loop of create_pdf is at
    pdf_si,           \* index of the next section inside that chapter
    laid,             \* units in the order pass 1 laid them out, with pages
    toc_page_no,      \* pdf_toc.page_no()
    toc_entries,      \* the TOC lines of pass 2, in the order rendered
    content_filename, \* local variable (None or the temp file's name)
    toc_filename,     \* local variable (None or the temp file's name)
    files,            \* temporary files that exist
    created,          \* temporary files this call has created
    remove_failed,    \* temporary files whose os.remove raised OSError
    merged,           \* the pages written to the output file, in order
    pdf_result        \* the value create_pdf returns

genVars  == <<cache, gpc, prompt_text, retries, attempt, api_result_text,
              result, log, startEntry, cache0, callNo, persisted>>
mainVars == <<pc, book_title, toc_raw_text, parsed_toc_structure,
              all_sections_content, chapter_i, section_i, genOrder,
              stageFail, pdf_success, docx_success>>
parseVars == <<toc_text, lines, line_i, parsed_toc, current_chapter_title,
               parse_result>>
pdfVars == <<pdf_pc, pdf_parsed_toc, page_map, page_no, pdf_ci, pdf_si, laid,
             toc_page_no, toc_entries, content_filename, toc_filename, files,
             created, remove_failed, merged, pdf_result>>
vars == <<genVars, mainVars, parseVars, pdfVars>>

----------------------------------------------------------------------------
(* Bounds of the model.                                                    *)
MaxRetries == 3    \* largest attempt budget drawn for a generate call
MaxCalls   == 2    \* generate calls made by the driver of SpecGen
MaxLines   == 5    \* lines of an outline drawn for parse_toc

(* Program constants.                                                      *)
MIN_LEN         == 20   \* "len(api_result_text) < 20"
DEFAULT_RETRIES == 3    \* "retries=3" default and explicit argument

----------------------------------------------------------------------------
(* Python values: Optional[str].                                           *)
None    == [some |-> FALSE, text |-> ""]
Some(t) == [some |-> TRUE, text |-> t]
\* truth value of an Optional[str] in "if x:" / "if not x:"
Truthy(v) == v.some /\ v.text # ""

----------------------------------------------------------------------------
(* Characters and strings.                                                 *)
Char(s, i) == SubSeq(s, i, i)
Whitespace == {" ", "\n", "\t"}
Digits     == {"0", "1", "2", "3", "4", "5", "6", "7", "8", "9"}
IsSpace(c) == c \in Whitespace
IsDigit(c) == c \in Digits

RECURSIVE lstrip(_)
lstrip(s) ==
    IF Len(s) > 0 /\ IsSpace(Head(s)) THEN lstrip(Tail(s)) ELSE s

RECURSIVE rstrip(_)
rstrip(s) ==
    IF Len(s) > 0 /\ IsSpace(Char(s, Len(s)))
    THEN rstrip(SubSeq(s, 1, Len(s) - 1)) ELSE s

strip(s) == rstrip(lstrip(s))

\* index of the first "\n" of s, or Len(s) + 1 when it has none
FindNewline(s) ==
    LET at == {k \in 1..Len(s) : Char(s, k) = "\n"}
    IN  IF at = {} THEN Len(s) + 1
        ELSE CHOOSE k \in at : \A m \in at : k <= m

\* s.split('\n'): always at least one piece
RECURSIVE split(_)
split(s) ==
    LET j == FindNewline(s)
    IN  IF j > Len(s) THEN <<s>>
        ELSE <<SubSeq(s, 1, j - 1)>> \o split(SubSeq(s, j + 1, Len(s)))

----------------------------------------------------------------------------
(* The response cache: api_cache/<sha256 of the prompt>.pkl.               *)

Alphabet ==
    " \n\tabcdefghijklmnopqrstuvwxyzABCDEFGHIJKLMNOPQRSTUVWXYZ0123456789.:()',"
CharCode(c) == CHOOSE i \in 1..Len(Alphabet) : Char(Alphabet, i) = c

\* A digest of the bytes of s.  SHA-256 is replaced by a short positional
\* checksum: deterministic, a function of the bytes alone, and free of
\* collisions on the prompts of the model (FingerprintInjective).  The sum
\* is split in halves to keep the evaluation shallow.
RECURSIVE DigestSum(_, _, _)
DigestSum(s, lo, hi) ==
    IF lo > hi THEN 0
    ELSE IF lo = hi THEN CharCode(Char(s, lo)) * (131 * lo + 7)
    ELSE DigestSum(s, lo, (lo + hi) \div 2)
            + DigestSum(s, (lo + hi) \div 2 + 1, hi)
Digest(s) == (DigestSum(s, 1, Len(s)) + Len(s)) % 1000003

\* prompt_hash = hashlib.sha256(prompt_text.encode('utf-8')).hexdigest()
Fingerprint(p) == Digest(p)

\* stored entries: a pickled str, a pickled object of another type, or a
\* file pickle.load cannot read (truncated, garbage)
StrEntry(t)  == [kind |-> "str", text |-> t]
NonStrEntry  == [kind |-> "nonstr", text |-> ""]
CorruptEntry == [kind |-> "corrupt", text |-> ""]
AbsentEntry  == [kind |-> "absent", text |-> ""]

\* os.path.exists(cache_filepath)
CacheExists(d) == d \in DOMAIN cache
EntryAt(c, d) == IF d \in DOMAIN c THEN c[d] ELSE AbsentEntry

\* lines 90-98: the value the lookup returns, None standing for "go on to
\* the API" (file missing, load raised, or the object is not a str)
CacheLoadRejectsStr(d) == None
CacheLoad(d) ==
    IF CacheExists(d) /\ cache[d].kind = "str" THEN Some(cache[d].text)
    ELSE None

\* lines 117-120: open(cache_filepath, 'wb') and pickle.dump.  The write can
\* succeed, fail at open (the file is left as it was), or fail inside dump
\* after open truncated the file (an unreadable file is left behind).
PutOutcomes == {"ok", "open_fails", "dump_fails"}
CacheWrite(c, d, e) ==
    [x \in DOMAIN c \cup {d} |-> IF x = d THEN e ELSE c[x]]
CachePutDropsOthers(d, t, w) ==
    CASE w = "ok"         -> [x \in {d} |-> StrEntry(t)]
      [] w = "dump_fails" -> CacheWrite(cache, d, CorruptEntry)
      [] OTHER            -> cache
CachePut(d, t, w) ==
    CASE w = "ok"         -> CacheWrite(cache, d, StrEntry(t))
      [] w = "dump_fails" -> CacheWrite(cache, d, CorruptEntry)
      [] OTHER            -> cache

----------------------------------------------------------------------------
(* generate_with_gemini(prompt_text, retries, delay)                       *)

\* what one model.generate_content call can come to: a response with .text,
\* a response without the attribute, an exception whose message holds
\* "API key not valid", or any other exception (reading .text raising
\* counts as the latter)
TextOutcome(t) == [kind |-> "text", text |-> t]
NoTextOutcome  == [kind |-> "no_text", text |-> ""]
ErrorOutcome   == [kind |-> "error", text |-> ""]
AuthOutcome    == [kind |-> "auth", text |-> ""]
SleepEvent     == [kind |-> "sleep", text |-> ""]

\* line 108: the test that rejects a stripped response text
TooShort(t) == t = "" \/ Len(t) < MIN_LEN

\* entering the function: arguments bound, locals fresh
BeginGenerate(p, n) ==
    /\ gpc' = "lookup"
    /\ prompt_text' = p
    /\ retries' = n
    /\ attempt' = 0
    /\ api_result_text' = None
    /\ result' = None
    /\ log' = <<>>
    /\ startEntry' = EntryAt(cache, Fingerprint(p))
    /\ cache0' = cache
    /\ callNo' = callNo + 1
    /\ UNCHANGED <<cache, persisted>>

\* lines 88-100: hash, cache lookup, fall through to the loop on a miss
generate_lookup ==
    /\ gpc = "lookup"
    /\ LET got == CacheLoad(Fingerprint(prompt_text))
       IN  IF got.some
           THEN /\ result' = got
                /\ gpc' = "done"
           ELSE /\ result' = result
                /\ gpc' = IF attempt < retries THEN "attempt" ELSE "finish"
    /\ UNCHANGED <<cache, prompt_text, retries, attempt, api_result_text, log,
                   startEntry, cache0, callNo, persisted>>
    /\ UNCHANGED <<mainVars, parseVars, pdfVars>>

\* lines 106-108: the value api_result_text holds after a response with
\* .text: the stripped text, reset to None when it is rejected
TextResultKeepsShort(t) == Some(strip(t))
TextResult(t) ==
    IF TooShort(strip(t)) THEN None ELSE Some(strip(t))

\* line 113: "API key not valid" in str(e)
IsAuthErrorNever(o) == FALSE
IsAuthError(o) == o.kind = "auth"

\* lines 114-115: after any other exception, break on the last attempt,
\* sleep otherwise
AfterErrorOffByOne == IF attempt = retries - 2 THEN "finish" ELSE "sleep"
AfterError == IF attempt = retries - 1 THEN "finish" ELSE "sleep"

\* lines 101-115: one pass through the loop body up to its sleep, break or
\* return, for one outcome o of the external call
generate_attempt(o) ==
    /\ gpc = "attempt"
    /\ attempt < retries
    /\ log' = Append(log, o)
    /\ CASE o.kind = "text" ->
              /\ api_result_text' = TextResult(o.text)
              /\ gpc' = IF TooShort(strip(o.text)) THEN "sleep" ELSE "finish"
              /\ UNCHANGED result
         [] o.kind = "no_text" ->
              /\ gpc' = "sleep"
              /\ UNCHANGED <<api_result_text, result>>
         [] IsAuthError(o) ->
              /\ result' = None
              /\ gpc' = "done"
              /\ UNCHANGED api_result_text
         [] OTHER ->
              /\ gpc' = AfterError
              /\ UNCHANGED <<api_result_text, result>>
    /\ UNCHANGED <<cache, prompt_text, retries, attempt, startEntry, cache0,
                   callNo, persisted>>
    /\ UNCHANGED <<mainVars, parseVars, pdfVars>>

\* time.sleep(delay) at line 108, 110 or 115, then the next loop iteration
\* (or the end of the loop when the range is used up)
generate_sleep ==
    /\ gpc = "sleep"
    /\ log' = Append(log, SleepEvent)
    /\ attempt' = attempt + 1
    /\ gpc' = IF attempt + 1 < retries THEN "attempt" ELSE "finish"
    /\ UNCHANGED <<cache, prompt_text, retries, api_result_text, result,
                   startEntry, cache0, callNo, persisted>>
    /\ UNCHANGED <<mainVars, parseVars, pdfVars>>

\* lines 116-122: store and return the accepted text, or return None
FinishFailsOnPutError(w) ==
    /\ gpc = "finish"
    /\ gpc' = "done"
    /\ IF Truthy(api_result_text)
       THEN /\ cache' = CachePut(Fingerprint(prompt_text),
                                 api_result_text.text, w)
            /\ persisted' = IF w = "ok"
                            THEN persisted \cup {[prompt |-> prompt_text,
                                                  text |-> api_result_text.text,
                                                  call |-> callNo]}
                            ELSE persisted
            /\ result' = IF w = "ok" THEN api_result_text ELSE None
       ELSE /\ result' = None
            /\ UNCHANGED <<cache, persisted>>
    /\ UNCHANGED <<prompt_text, retries, attempt, api_result_text, log,
                   startEntry, cache0, callNo>>
    /\ UNCHANGED <<mainVars, parseVars, pdfVars>>

generate_finish(w) ==
    /\ gpc = "finish"
    /\ gpc' = "done"
    /\ IF Truthy(api_result_text)
       THEN /\ cache' = CachePut(Fingerprint(prompt_text),
                                 api_result_text.text, w)
            /\ persisted' = IF w = "ok"
                            THEN persisted \cup {[prompt |-> prompt_text,
                                                  text |-> api_result_text.text,
                                                  call |-> callNo]}
                            ELSE persisted
            /\ result' = api_result_text
       ELSE /\ result' = None
            /\ UNCHANGED <<cache, persisted>>
    /\ UNCHANGED <<prompt_text, retries, attempt, api_result_text, log,
                   startEntry, cache0, callNo>>
    /\ UNCHANGED <<mainVars, parseVars, pdfVars>>

----------------------------------------------------------------------------
(* Values the parts of the model that a specification does not run keep.   *)
MainOff ==
    /\ pc = "off"
    /\ book_title = ""
    /\ toc_raw_text = None
    /\ parsed_toc_structure = <<>>
    /\ all_sections_content = <<>>
    /\ chapter_i = 0
    /\ section_i = 0
    /\ genOrder = <<>>
    /\ stageFail = {}
    /\ pdf_success = "none"
    /\ docx_success = "none"

ParseOff ==
    /\ toc_text = ""
    /\ lines = <<>>
    /\ line_i = 0
    /\ parsed_toc = <<>>
    /\ current_chapter_title = None
    /\ parse_result = "off"

PdfOff ==
    /\ pdf_pc = "off"
    /\ pdf_parsed_toc = <<>>
    /\ page_map = <<>>
    /\ page_no = 0
    /\ pdf_ci = 0
    /\ pdf_si = 0
    /\ laid = <<>>
    /\ toc_page_no = 0
    /\ toc_entries = <<>>
    /\ content_filename = None
    /\ toc_filename = None
    /\ files = {}
    /\ created = {}
    /\ remove_failed = {}
    /\ merged = <<>>
    /\ pdf_result = "none"

GenIdle ==
    /\ gpc = "idle"
    /\ prompt_text = ""
    /\ retries = 0
    /\ attempt = 0
    /\ api_result_text = None
    /\ result = None
    /\ log = <<>>
    /\ startEntry = AbsentEntry
    /\ cache0 = cache
    /\ callNo = 0
    /\ persisted = {}

----------------------------------------------------------------------------
(* SpecGen: a driver calls generate_with_gemini again and again, with      *)
(* prompts and attempt budgets of its choice, over a cache directory left  *)
(* behind by earlier runs.                                                 *)

GenPrompts == {"title prompt", "outline prompt"}

\* response texts of the external service: one whose stripped length is
\* exactly MIN_LEN, one whose stripped length is MIN_LEN - 1 although its
\* raw length is larger, and one that is blank
Accepted20 == "  exactly twenty chars\n"
Short19    == "   nineteen chars long   "
Blank      == " \n "
GenResponses == {Accepted20, Short19, Blank}
GenOutcomes ==
    {TextOutcome(t) : t \in GenResponses}
        \cup {NoTextOutcome, ErrorOutcome, AuthOutcome}

\* what an earlier run, or anything else, can have left in api_cache/
GenInitialEntries ==
    {StrEntry("old text"), NonStrEntry, CorruptEntry}
GenInitialCaches ==
    UNION {[D -> GenInitialEntries] :
              D \in SUBSET {Fingerprint(p) : p \in GenPrompts}}

InitGen ==
    /\ cache \in GenInitialCaches
    /\ GenIdle
    /\ MainOff
    /\ ParseOff
    /\ PdfOff

\* the driver: a call of generate_with_gemini(p, retries=n)
Call(p, n) ==
    /\ gpc \in {"idle", "done"}
    /\ callNo < MaxCalls
    /\ BeginGenerate(p, n)
    /\ UNCHANGED <<mainVars, parseVars, pdfVars>>

NextGen ==
    \/ \E p \in GenPrompts, n \in 0..MaxRetries : Call(p, n)
    \/ generate_lookup
    \/ \E o \in GenOutcomes : generate_attempt(o)
    \/ generate_sleep
    \/ \E w \in PutOutcomes : generate_finish(w)

SpecGen == InitGen /\ [][NextGen]_vars

----------------------------------------------------------------------------
(* Observations on the running generate call.                              *)

Last(q) == q[Len(q)]
\* the external completion calls of the running call, in order
CallEvents == SelectSeq(log, LAMBDA e : e.kind # "sleep")
\* the call began without a readable text entry for its prompt
Miss == startEntry.kind # "str"
\* a response the contract accepts / a failure that may be retried
Accepted(e)  == e.kind = "text" /\ Len(strip(e.text)) >= MIN_LEN
Transient(e) == e.kind \in {"error", "no_text"}
                    \/ (e.kind = "text" /\ ~Accepted(e))

\* C1: when the cache holds a readable text under the fingerprint of the
\* prompt, the call returns exactly that text and makes no external call;
\* and once a call for prompt x has returned an accepted text t and stored
\* it, every later call for x, whatever its attempt budget, returns t
\* without an external call.
C1_CacheHitReturnsStoredText ==
    /\ (gpc # "idle" /\ startEntry.kind = "str")
          => /\ log = <<>>
             /\ gpc \in {"lookup", "done"}
             /\ (gpc = "done" => result = Some(startEntry.text))
    /\ \A r \in persisted :
          (gpc = "done" /\ prompt_text = r.prompt /\ callNo > r.call)
             => (result = Some(r.text) /\ log = <<>>)

C1_Witness ==
    /\ gpc = "done"
    /\ log = <<>>
    /\ \E r \in persisted :
          /\ prompt_text = r.prompt
          /\ callNo > r.call
          /\ result = Some(r.text)

\* C2: no cache failure makes a generate call fail: an entry that cannot be
\* read, or is not text, is handled as a miss (the call goes on to the
\* external attempts), and an accepted text is returned whether or not
\* storing it worked.
C2_CacheFailuresAreNotFatal ==
    /\ (gpc \in {"sleep", "finish", "done"}
            /\ startEntry.kind \in {"corrupt", "nonstr"} /\ retries > 0)
          => Len(CallEvents) >= 1
    /\ (gpc = "done" /\ Miss /\ log # <<>> /\ Accepted(Last(log)))
          => result = Some(strip(Last(log).text))

C2_Witness ==
    /\ gpc = "done"
    /\ startEntry.kind = "corrupt"
    /\ log # <<>>
    /\ Accepted(Last(log))
    /\ result = Some(strip(Last(log).text))
    /\ EntryAt(cache, Fingerprint(prompt_text)).kind # "str"

\* C3: on a cache miss a call with attempt budget N makes at most N external
\* calls; an accepted response on attempt k ends the call after exactly k
\* attempts, with that text; if every attempt fails transiently, exactly N
\* attempts are made and the call returns failure.
C3_AtMostNAttempts ==
    /\ Len(CallEvents) <= retries
    /\ (gpc = "done" /\ Miss)
          => /\ \A k \in 1..Len(CallEvents) :
                    Accepted(CallEvents[k])
                        => (k = Len(CallEvents) /\ Truthy(result))
             /\ (\A k \in 1..Len(CallEvents) : Transient(CallEvents[k]))
                    => (Len(CallEvents) = retries /\ result = None)

C3_Witness ==
    /\ gpc = "done"
    /\ Miss
    /\ retries = DEFAULT_RETRIES
    /\ Len(CallEvents) = retries
    /\ \A k \in 1..Len(CallEvents) : Transient(CallEvents[k])
    /\ Last(CallEvents) = TextOutcome(Short19)
    /\ result = None

\* C4: a text returned on a cache miss is the stripped text of the last
\* attempt, which returned a text of at least MIN_LEN characters after
\* stripping; no shorter text is returned or written to the cache, and a
\* text rejected earlier is not returned when a later attempt fails.
C4_OnlyAcceptedTextReturnedOrStored ==
    /\ (gpc = "done" /\ Miss /\ result.some)
          => /\ log # <<>>
             /\ Last(log).kind = "text"
             /\ result.text = strip(Last(log).text)
             /\ Len(result.text) >= MIN_LEN
    /\ \A d \in DOMAIN cache :
          (cache[d] # EntryAt(cache0, d) /\ cache[d].kind = "str")
             => /\ Len(cache[d].text) >= MIN_LEN
                /\ \E k \in 1..Len(log) : /\ Accepted(log[k])
                                          /\ cache[d].text = strip(log[k].text)

C4_Witness ==
    /\ gpc = "done"
    /\ Miss
    /\ Len(log) > 2
    /\ log[1] = TextOutcome(Short19)
    /\ result = Some(strip(Accepted20))
    /\ Len(result.text) = MIN_LEN
    /\ EntryAt(cache, Fingerprint(prompt_text)) = StrEntry(result.text)

\* C5: an authentication error on attempt k is the last thing the call
\* does: exactly k external calls, no later attempt, no later sleep, and
\* the call returns failure.
C5_AuthErrorEndsTheCall ==
    \A i \in 1..Len(log) :
        log[i].kind = "auth"
            => /\ i = Len(log)
               /\ gpc = "done"
               /\ result = None

C5_Witness ==
    /\ gpc = "done"
    /\ retries = DEFAULT_RETRIES
    /\ Len(CallEvents) = 2
    /\ Last(log).kind = "auth"
    /\ result = None

\* the delays of the running call
SleepEvents == SelectSeq(log, LAMBDA e : e.kind = "sleep")

\* C18: within one generate call every delay is followed by another
\* attempt: once the loop is over the last event of the call is not a
\* delay, and a call that made k attempts slept at most k - 1 times.
C18_DelayOnlyBetweenAttempts ==
    (gpc \in {"finish", "done"} /\ log # <<>>)
        => /\ Last(log).kind # "sleep"
           /\ Len(SleepEvents) <= Len(CallEvents) - 1

\* the delay after the final attempt is that of a missing or short text
\* only: after an exception on the final attempt the loop ends at once
NoDelayAfterFinalError ==
    (gpc \in {"finish", "done"} /\ Len(log) >= 2 /\ Last(log).kind = "sleep")
        => /\ log[Len(log) - 1].kind \in {"no_text", "text"}
           /\ Len(SleepEvents) = Len(CallEvents)

\* the running call has returned an accepted text it got from the service
ReturnedAcceptedText ==
    /\ gpc = "done" /\ Miss /\ Truthy(result)
    /\ log # <<>> /\ Accepted(Last(log))
    /\ result.text = strip(Last(log).text)

\* C21: the cache is written only by a generate call that returns an
\* accepted text, and then exactly that text is stored under the
\* fingerprint of the call's prompt; a call that ends in failure or is
\* served from the cache leaves every entry unchanged.
C21_CacheWrittenOnlyWithReturnedText ==
    /\ gpc \in {"lookup", "attempt", "sleep", "finish"} => cache = cache0
    /\ (gpc = "done" /\ cache # cache0)
          => /\ ReturnedAcceptedText
             /\ cache = CacheWrite(cache0, Fingerprint(prompt_text),
                                   StrEntry(result.text))
    /\ (gpc = "done" /\ (~Truthy(result) \/ ~Miss)) => cache = cache0

\* C21, amended: only a call that returns an accepted text changes the
\* cache, and only the entry of its own prompt: when the write succeeds the
\* entry holds exactly the returned text, when the write fails the entry is
\* left as it was or left unreadable.
C21_CacheWrittenOnlyByAcceptingCall ==
    /\ gpc \in {"lookup", "attempt", "sleep", "finish"} => cache = cache0
    /\ (gpc = "done" /\ cache # cache0)
          => /\ ReturnedAcceptedText
             /\ \/ cache = CacheWrite(cache0, Fingerprint(prompt_text),
                                      StrEntry(result.text))
                \/ cache = CacheWrite(cache0, Fingerprint(prompt_text),
                                      CorruptEntry)
    /\ (gpc = "done" /\ (~Truthy(result) \/ ~Miss)) => cache = cache0

\* an accepted text was stored over an unreadable entry while the entry of
\* the other prompt stayed as it was
C21_Witness ==
    /\ ReturnedAcceptedText
    /\ startEntry = CorruptEntry
    /\ cache = CacheWrite(cache0, Fingerprint(prompt_text),
                          StrEntry(result.text))
    /\ \E d \in DOMAIN cache0 :
          d # Fingerprint(prompt_text) /\ cache[d] = cache0[d]

----------------------------------------------------------------------------
(* parse_toc(toc_text)                                                     *)

RECURSIVE SkipSpaces(_, _)
SkipSpaces(s, i) ==
    IF i <= Len(s) /\ IsSpace(Char(s, i)) THEN SkipSpaces(s, i + 1) ELSE i

RECURSIVE SkipDigits(_, _)
SkipDigits(s, i) ==
    IF i <= Len(s) /\ IsDigit(Char(s, i)) THEN SkipDigits(s, i + 1) ELSE i

NoMatch == [matched |-> FALSE, num |-> "", title |-> ""]

\* the tail "\.\s+(.+)" of both patterns, tried at position i of s; num is
\* the text of the first group.  \s+ is greedy and gives one character back
\* when nothing is left for (.+).
MatchDotSpaceTitle(s, i, num) ==
    LET j == SkipSpaces(s, i + 1)
    IN  IF ~(i <= Len(s) /\ Char(s, i) = ".") THEN NoMatch
        ELSE IF j = i + 1 THEN NoMatch
        ELSE IF j <= Len(s)
             THEN [matched |-> TRUE, num |-> num,
                   title |-> SubSeq(s, j, Len(s))]
        ELSE IF j - 1 > i + 1
             THEN [matched |-> TRUE, num |-> num,
                   title |-> SubSeq(s, j - 1, Len(s))]
        ELSE NoMatch

\* chapter_pattern = re.compile(r"^\s*(\d+)\.\s+(.+)").match(line)
chapter_pattern(s) ==
    LET a == SkipSpaces(s, 1)
        b == SkipDigits(s, a)
    IN  IF b = a THEN NoMatch
        ELSE MatchDotSpaceTitle(s, b, SubSeq(s, a, b - 1))

\* section_pattern = re.compile(r"^\s+(\d+\.\d+)\.\s+(.+)").match(line)
section_pattern(s) ==
    LET a == SkipSpaces(s, 1)
        b == SkipDigits(s, a)
        c == SkipDigits(s, b + 1)
    IN  IF a = 1 \/ b = a THEN NoMatch
        ELSE IF ~(b <= Len(s) /\ Char(s, b) = ".") THEN NoMatch
        ELSE IF c = b + 1 THEN NoMatch
        ELSE MatchDotSpaceTitle(s, c, SubSeq(s, a, c - 1))

\* The OrderedDict {chapter_title: [section_title, ...]}: a sequence of
\* entries with distinct keys, in insertion order.
DictKeys(d)   == {d[i].title : i \in 1..Len(d)}
DictHas(d, k) == k \in DictKeys(d)
DictGet(d, k) == d[CHOOSE i \in 1..Len(d) : d[i].title = k].secs
\* d[k] = v: a new key goes to the end, an old key keeps its place
DictSet(d, k, v) ==
    IF DictHas(d, k)
    THEN [i \in 1..Len(d) |->
             IF d[i].title = k THEN [title |-> k, secs |-> v] ELSE d[i]]
    ELSE Append(d, [title |-> k, secs |-> v])
\* d[k].append(x)
DictAppend(d, k, x) ==
    [i \in 1..Len(d) |->
        IF d[i].title = k THEN [d[i] EXCEPT !.secs = Append(@, x)] ELSE d[i]]

\* lines 158-178 with the last branch also forgetting the open chapter
ParseLineNonMatchClosesChapter(st, raw) ==
    LET line == rstrip(raw)
        chapter_match == chapter_pattern(line)
        section_match == section_pattern(line)
    IN  IF chapter_match.matched
        THEN LET chapter_title == strip(chapter_match.title)
             IN  IF chapter_title = "" THEN st
                 ELSE [toc |-> DictSet(st.toc, chapter_title, <<>>),
                       cur |-> Some(chapter_title)]
        ELSE IF section_match.matched /\ Truthy(st.cur)
        THEN LET section_title == strip(section_match.title)
             IN  IF section_title = "" THEN st
                 ELSE IF DictHas(st.toc, st.cur.text)
                 THEN [st EXCEPT
                          !.toc = DictAppend(@, st.cur.text, section_title)]
                 ELSE st
        ELSE [st EXCEPT !.cur = None]

\* lines 158-178: the loop body for one line, on the state
\* [toc |-> parsed_toc, cur |-> current_chapter_title]
ParseLine(st, raw) ==
    LET line == rstrip(raw)
        chapter_match == chapter_pattern(line)
        section_match == section_pattern(line)
    IN  IF chapter_match.matched
        THEN LET chapter_title == strip(chapter_match.title)
             IN  IF chapter_title = "" THEN st
                 ELSE [toc |-> DictSet(st.toc, chapter_title, <<>>),
                       cur |-> Some(chapter_title)]
        ELSE IF section_match.matched /\ Truthy(st.cur)
        THEN LET section_title == strip(section_match.title)
             IN  IF section_title = "" THEN st
                 ELSE IF DictHas(st.toc, st.cur.text)
                 THEN [st EXCEPT
                          !.toc = DictAppend(@, st.cur.text, section_title)]
                 ELSE st
        ELSE st

RECURSIVE SumSections(_)
SumSections(d) ==
    IF d = <<>> THEN 0 ELSE Len(Head(d).secs) + SumSections(Tail(d))

\* line 183: the chapters that ended up without sections
chapters_with_no_sections(d) ==
    SelectSeq(d, LAMBDA ch : ch.secs = <<>>)

\* lines 184-189: the outline is refused after the loop
RefusedWhenAnyChapterEmpty(d) == chapters_with_no_sections(d) # <<>>
Refused(d) ==
    /\ chapters_with_no_sections(d) # <<>>
    /\ SumSections(d) = 0 /\ Len(d) > 0

\* lines 180-191: the value parse_toc returns for the final dictionary
ParseVerdict(d) ==
    IF d = <<>> THEN "none"
    ELSE IF Refused(d) THEN "none"
    ELSE "ok"

\* the whole function, as the main program calls it
RECURSIVE ParseLines(_, _)
ParseLines(st, ls) ==
    IF ls = <<>> THEN st ELSE ParseLines(ParseLine(st, Head(ls)), Tail(ls))

parse_toc(text) ==
    IF text = "" THEN [verdict |-> "none", toc |-> <<>>]
    ELSE LET d == ParseLines([toc |-> <<>>, cur |-> None],
                             split(strip(text))).toc
         IN  [verdict |-> ParseVerdict(d), toc |-> d]

----------------------------------------------------------------------------
(* SpecParse: parse_toc run line by line on every outline of at most       *)
(* MaxLines lines drawn from OutlineLines.                                 *)

OutlineLines ==
    {"1. A", "2. B", "  1.1. a", "  2.1. b", "3.  ", "  1.2 c"}

RECURSIVE Join(_)
Join(ls) ==
    IF ls = <<>> THEN ""
    ELSE IF Len(ls) = 1 THEN ls[1]
    ELSE ls[1] \o "\n" \o Join(Tail(ls))

Outlines ==
    {Join(ls) : ls \in UNION {[1..n -> OutlineLines] : n \in 0..MaxLines}}

InitParse ==
    /\ toc_text \in Outlines
    /\ lines = <<>>
    /\ line_i = 0
    /\ parsed_toc = <<>>
    /\ current_chapter_title = None
    /\ parse_result = "called"
    /\ cache = <<>>
    /\ GenIdle
    /\ MainOff
    /\ PdfOff

\* lines 148-156: refuse an empty text, else split the stripped text
parse_begin ==
    /\ parse_result = "called"
    /\ IF toc_text = ""
       THEN /\ parse_result' = "none"
            /\ UNCHANGED <<lines, line_i>>
       ELSE /\ parse_result' = "loop"
            /\ lines' = split(strip(toc_text))
            /\ line_i' = 1
    /\ UNCHANGED <<toc_text, parsed_toc, current_chapter_title>>
    /\ UNCHANGED <<genVars, mainVars, pdfVars>>

\* lines 157-178: one iteration of "for line in lines"
parse_line ==
    /\ parse_result = "loop"
    /\ line_i <= Len(lines)
    /\ LET st == ParseLine([toc |-> parsed_toc,
                            cur |-> current_chapter_title], lines[line_i])
       IN  /\ parsed_toc' = st.toc
           /\ current_chapter_title' = st.cur
    /\ line_i' = line_i + 1
    /\ UNCHANGED <<toc_text, lines, parse_result>>
    /\ UNCHANGED <<genVars, mainVars, pdfVars>>

\* lines 180-191: the checks after the loop and the return
parse_end ==
    /\ parse_result = "loop"
    /\ line_i > Len(lines)
    /\ parse_result' = ParseVerdict(parsed_toc)
    /\ UNCHANGED <<toc_text, lines, line_i, parsed_toc, current_chapter_title>>
    /\ UNCHANGED <<genVars, mainVars, pdfVars>>

NextParse == parse_begin \/ parse_line \/ parse_end

SpecParse == InitParse /\ [][NextParse]_vars

----------------------------------------------------------------------------
(* The outline as its lines state it, read off the input independently of  *)
(* the dictionary the parser builds.                                       *)

IsChapterLine(l) ==
    /\ chapter_pattern(rstrip(l)).matched
    /\ strip(chapter_pattern(rstrip(l)).title) # ""
IsSectionLine(l) ==
    /\ ~chapter_pattern(rstrip(l)).matched
    /\ section_pattern(rstrip(l)).matched
    /\ strip(section_pattern(rstrip(l)).title) # ""

\* one group per chapter line, in input order: its title and the titles of
\* the section lines between it and the next chapter line
RECURSIVE GroupsOf(_, _)
GroupsOf(ls, acc) ==
    IF ls = <<>> THEN acc
    ELSE IF IsChapterLine(Head(ls))
    THEN GroupsOf(Tail(ls),
                  Append(acc, [title |-> strip(chapter_pattern(rstrip(Head(ls))).title),
                               secs |-> <<>>]))
    ELSE IF IsSectionLine(Head(ls)) /\ acc # <<>>
    THEN GroupsOf(Tail(ls),
                  [acc EXCEPT ![Len(acc)].secs =
                      Append(@, strip(section_pattern(rstrip(Head(ls))).title))])
    ELSE GroupsOf(Tail(ls), acc)

InputGroups == GroupsOf(split(toc_text), <<>>)

\* a is b with some elements left out, order kept
RECURSIVE IsSubsequence(_, _)
IsSubsequence(a, b) ==
    IF a = <<>> THEN TRUE
    ELSE IF b = <<>> THEN FALSE
    ELSE IF Head(a) = Head(b) THEN IsSubsequence(Tail(a), Tail(b))
    ELSE IsSubsequence(a, Tail(b))

TitlesDistinct(g) ==
    \A i \in 1..Len(g), j \in 1..Len(g) : g[i].title = g[j].title => i = j

\* C9: parse_toc preserves input order: the chapters of the result, each
\* with its sections, are chapter lines of the input taken in input order,
\* each with the section lines that followed it up to the next chapter line.
C9_ParseKeepsInputOrder ==
    parse_result = "ok" => IsSubsequence(parsed_toc, InputGroups)

\* when no chapter title is repeated in the input, the
\* result is the input's groups, one for one
OrderKeptWhenTitlesDistinct ==
    (parse_result = "ok" /\ TitlesDistinct(InputGroups))
        => parsed_toc = InputGroups

\* C10: parse_toc returns failure exactly when no chapter was recognized or
\* the sections of all chapters together number zero; an outline with some
\* empty chapters is accepted and every recognized chapter is kept.
C10_FailureIffNoChapterOrNoSection ==
    parse_result \in {"none", "ok"}
        => /\ (parse_result = "none")
                 <=> (InputGroups = <<>> \/ SumSections(parsed_toc) = 0)
           /\ parse_result = "ok"
                 => \A i \in 1..Len(InputGroups) :
                        DictHas(parsed_toc, InputGroups[i].title)

C10_Witness ==
    /\ parse_result = "ok"
    /\ \E i \in 1..Len(parsed_toc) : parsed_toc[i].secs = <<>>
    /\ \E i \in 1..Len(parsed_toc) : parsed_toc[i].secs # <<>>

\* the three kinds of line the parser is to skip, stated on the raw line and
\* the raw lines before it
OrphanSectionLine(ls, i) ==
    /\ IsSectionLine(ls[i])
    /\ \A k \in 1..(i - 1) : ~IsChapterLine(ls[k])
\* digits and a dot with nothing but blanks after it
EmptyTitleChapterLine(l) ==
    LET t == strip(l)
        b == SkipDigits(t, 1)
    IN  b > 1 /\ b = Len(t) /\ Char(t, b) = "."
NeitherPatternLine(l) ==
    /\ ~chapter_pattern(rstrip(l)).matched
    /\ ~section_pattern(rstrip(l)).matched
SkippedLine(ls, i) ==
    \/ OrphanSectionLine(ls, i)
    \/ EmptyTitleChapterLine(ls[i])
    \/ NeitherPatternLine(ls[i])

\* C11: the loop iteration for a skipped line (a section line before any
\* chapter line, a chapter line whose title is empty after trimming, a line
\* matching neither pattern) leaves the dictionary and the current chapter
\* as they were and goes on to the next line: no chapter entry is created,
\* no section added, the parse is not aborted.
C11_SkippedLineChangesNothing ==
    [][(/\ parse_result = "loop"
        /\ line_i <= Len(lines)
        /\ line_i' = line_i + 1
        /\ SkippedLine(lines, line_i))
          => /\ parsed_toc' = parsed_toc
             /\ current_chapter_title' = current_chapter_title
             /\ parse_result' = "loop"
             /\ lines' = lines]_vars

\* an orphan section line and an empty-title chapter line were passed, and a
\* line matching neither pattern stood between a chapter line and a section
\* line that was attached to that chapter
C11_Witness ==
    /\ parse_result = "ok"
    /\ \E i \in 2..Len(lines) : OrphanSectionLine(lines, i)
    /\ \E i \in 1..Len(lines) : EmptyTitleChapterLine(lines[i])
    /\ \E i, j, k \in 1..Len(lines) :
          /\ i < j /\ j < k
          /\ IsChapterLine(lines[i])
          /\ NeitherPatternLine(lines[j])
          /\ IsSectionLine(lines[k])
          /\ \A m \in (i + 1)..k : ~IsChapterLine(lines[m])
          /\ parsed_toc =
                <<[title |-> strip(chapter_pattern(rstrip(lines[i])).title),
                   secs |-> <<strip(section_pattern(rstrip(lines[k])).title)>>]>>

\* C20: parse_toc loses no recognized section: the sections of the result
\* number as many as the section lines of the input that come after an
\* accepted chapter line, also when two chapter lines carry the same title.
C20_NoSectionLost ==
    parse_result = "ok" => SumSections(parsed_toc) = SumSections(InputGroups)

\* with no repeated chapter title no section is lost
NoSectionLostWhenTitlesDistinct ==
    (parse_result \in {"ok", "none"} /\ TitlesDistinct(InputGroups))
        => SumSections(parsed_toc) = SumSections(InputGroups)

----------------------------------------------------------------------------
(* The main program: title, outline, one generate call per section, then   *)
(* the two renderers.                                                      *)

\* An OrderedDict as a sequence of [key, val] entries with distinct keys.
OKeys(d)   == {d[i].key : i \in 1..Len(d)}
OHas(d, k) == k \in OKeys(d)
OGet(d, k) == d[CHOOSE i \in 1..Len(d) : d[i].key = k].val
OSet(d, k, v) ==
    IF OHas(d, k)
    THEN [i \in 1..Len(d) |->
             IF d[i].key = k THEN [key |-> k, val |-> v] ELSE d[i]]
    ELSE Append(d, [key |-> k, val |-> v])

\* the prompts, as functions of what the f-strings interpolate (the fixed
\* wording is shortened; the configuration values are constants of a run)
TitlePrompt == "titles about topic"
TocPrompt(title) == "outline of '" \o title \o "'"
SectionPrompt(section_title, chapter_title, title) ==
    "section '" \o section_title \o "' in chapter '" \o chapter_title
        \o "' of '" \o title \o "'"

\* lines 131-134: the title chosen from the text of the title call
RECURSIVE FirstTitle(_)
FirstTitle(ls) ==
    IF ls = <<>> THEN "Untitled Book"
    ELSE IF strip(Head(ls)) # "" THEN strip(Head(ls))
    ELSE FirstTitle(Tail(ls))
TitleWithoutFallback(titles_text) ==
    IF ~Truthy(titles_text) THEN "" ELSE FirstTitle(split(titles_text.text))
generate_title(titles_text) ==
    IF ~Truthy(titles_text) THEN "Untitled Book"
    ELSE FirstTitle(split(titles_text.text))

\* lines 202-206: the body generate_section_content returns
Placeholder(section_title) ==
    "(Content generation failed: " \o section_title \o ")"
SectionContentWithoutTitle(content, section_title) ==
    IF ~Truthy(content) THEN "(Content generation failed)" ELSE content.text
generate_section_content(content, section_title) ==
    IF ~Truthy(content) THEN Placeholder(section_title) ELSE content.text

\* why the generate call that has just ended returned a failure
FailCause == IF log # <<>> /\ Last(log).kind = "auth" THEN "auth"
             ELSE "exhausted"
Failure(stage, c, s) ==
    [stage |-> stage, c |-> c, s |-> s, cause |-> FailCause]

\* the history of the ended call is dropped when its caller takes the result
GenReturn ==
    /\ gpc = "done"
    /\ gpc' = "idle"
    /\ log' = <<>>
    /\ startEntry' = AbsentEntry
    /\ cache0' = cache
    /\ UNCHANGED <<cache, prompt_text, retries, attempt, api_result_text,
                   result, callNo, persisted>>

\* line 417 -> line 130: generate_title calls generate_with_gemini(prompt)
main_title_call ==
    /\ pc = "title"
    /\ gpc = "idle"
    /\ BeginGenerate(TitlePrompt, DEFAULT_RETRIES)
    /\ pc' = "title_wait"
    /\ UNCHANGED <<book_title, toc_raw_text, parsed_toc_structure,
                   all_sections_content, chapter_i, section_i, genOrder,
                   stageFail, pdf_success, docx_success>>
    /\ UNCHANGED <<parseVars, pdfVars>>

\* lines 131-134, 417-420: the title, or the fallback title
main_title_return ==
    /\ pc = "title_wait"
    /\ GenReturn
    /\ book_title' = generate_title(result)
    /\ stageFail' = IF result.some THEN stageFail
                    ELSE stageFail \cup {Failure("title", 0, 0)}
    /\ pc' = "toc"
    /\ UNCHANGED <<toc_raw_text, parsed_toc_structure, all_sections_content,
                   chapter_i, section_i, genOrder, pdf_success, docx_success>>
    /\ UNCHANGED <<parseVars, pdfVars>>

\* line 421 -> line 142: generate_toc calls generate_with_gemini(prompt)
main_toc_call ==
    /\ pc = "toc"
    /\ gpc = "idle"
    /\ BeginGenerate(TocPrompt(book_title), DEFAULT_RETRIES)
    /\ pc' = "toc_wait"
    /\ UNCHANGED <<book_title, toc_raw_text, parsed_toc_structure,
                   all_sections_content, chapter_i, section_i, genOrder,
                   stageFail, pdf_success, docx_success>>
    /\ UNCHANGED <<parseVars, pdfVars>>

\* lines 421-429: exit without an outline text, parse it, exit when the
\* parse fails, else start the section loop
main_toc_return ==
    /\ pc = "toc_wait"
    /\ GenReturn
    /\ toc_raw_text' = result
    /\ stageFail' = IF result.some THEN stageFail
                    ELSE stageFail \cup {Failure("toc", 0, 0)}
    /\ IF ~Truthy(result)
       THEN /\ pc' = "exited"
            /\ UNCHANGED <<parsed_toc_structure, chapter_i>>
       ELSE LET parsed == parse_toc(result.text)
            IN  IF parsed.verdict = "none"
                THEN /\ pc' = "exited"
                     /\ UNCHANGED <<parsed_toc_structure, chapter_i>>
                ELSE /\ parsed_toc_structure' = parsed.toc
                     /\ chapter_i' = 1
                     /\ pc' = "chapter"
    /\ UNCHANGED <<book_title, all_sections_content, section_i, genOrder,
                   pdf_success, docx_success>>
    /\ UNCHANGED <<parseVars, pdfVars>>

\* lines 430-433: the head of the chapter loop
main_chapter ==
    /\ pc = "chapter"
    /\ gpc = "idle"
    /\ IF chapter_i > Len(parsed_toc_structure)
       THEN /\ pc' = "pdf"
            /\ UNCHANGED <<all_sections_content, chapter_i, section_i>>
       ELSE LET ch == parsed_toc_structure[chapter_i]
            IN  /\ all_sections_content' =
                       OSet(all_sections_content, ch.title, <<>>)
                /\ IF ch.secs = <<>>
                   THEN /\ chapter_i' = chapter_i + 1
                        /\ UNCHANGED <<pc, section_i>>
                   ELSE /\ section_i' = 1
                        /\ pc' = "section"
                        /\ UNCHANGED chapter_i
    /\ UNCHANGED <<book_title, toc_raw_text, parsed_toc_structure, genOrder,
                   stageFail, pdf_success, docx_success>>
    /\ UNCHANGED <<genVars, parseVars, pdfVars>>

\* lines 434-440 -> line 201: generate_section_content calls
\* generate_with_gemini(prompt, retries=3, delay=5)
main_section_call ==
    /\ pc = "section"
    /\ gpc = "idle"
    /\ LET ch == parsed_toc_structure[chapter_i]
       IN  BeginGenerate(SectionPrompt(ch.secs[section_i], ch.title,
                                       book_title), DEFAULT_RETRIES)
    /\ genOrder' = Append(genOrder,
                          [c |-> chapter_i, s |-> section_i, res |-> None])
    /\ pc' = "section_wait"
    /\ UNCHANGED <<book_title, toc_raw_text, parsed_toc_structure,
                   all_sections_content, chapter_i, section_i, stageFail,
                   pdf_success, docx_success>>
    /\ UNCHANGED <<parseVars, pdfVars>>

\* lines 202-206 and 441: the body (or its placeholder) is stored and the
\* loop moves to the next section, or to the next chapter
main_section_return ==
    /\ pc = "section_wait"
    /\ GenReturn
    /\ LET ch == parsed_toc_structure[chapter_i]
           section_title == ch.secs[section_i]
           content == generate_section_content(result, section_title)
       IN  /\ all_sections_content' =
                  OSet(all_sections_content, ch.title,
                       OSet(OGet(all_sections_content, ch.title),
                            section_title, content))
           /\ IF section_i < Len(ch.secs)
              THEN /\ section_i' = section_i + 1
                   /\ pc' = "section"
                   /\ UNCHANGED chapter_i
              ELSE /\ chapter_i' = chapter_i + 1
                   /\ pc' = "chapter"
                   /\ UNCHANGED section_i
    /\ genOrder' = [genOrder EXCEPT ![Len(genOrder)].res = result]
    /\ stageFail' = IF Truthy(result) THEN stageFail
                    ELSE stageFail
                            \cup {Failure("section", chapter_i, section_i)}
    /\ UNCHANGED <<book_title, toc_raw_text, parsed_toc_structure,
                   pdf_success, docx_success>>
    /\ UNCHANGED <<parseVars, pdfVars>>

\* line 444 with a failure of create_pdf ending the run
CreatePdfFailureExits ==
    /\ pc = "pdf"
    /\ pdf_success' \in {"True", "False"}
    /\ pc' = IF pdf_success' = "True" THEN "docx" ELSE "exited"
    /\ UNCHANGED <<book_title, toc_raw_text, parsed_toc_structure,
                   all_sections_content, chapter_i, section_i, genOrder,
                   stageFail, docx_success>>
    /\ UNCHANGED <<genVars, parseVars, pdfVars>>

\* line 444: create_pdf returns True, or False after a failure it caught
main_create_pdf ==
    /\ pc = "pdf"
    /\ pdf_success' \in {"True", "False"}
    /\ pc' = "docx"
    /\ UNCHANGED <<book_title, toc_raw_text, parsed_toc_structure,
                   all_sections_content, chapter_i, section_i, genOrder,
                   stageFail, docx_success>>
    /\ UNCHANGED <<genVars, parseVars, pdfVars>>

\* line 445: create_docx returns True, or False after a failure it caught
main_create_docx ==
    /\ pc = "docx"
    /\ docx_success' \in {"True", "False"}
    /\ pc' = "done"
    /\ UNCHANGED <<book_title, toc_raw_text, parsed_toc_structure,
                   all_sections_content, chapter_i, section_i, genOrder,
                   stageFail, pdf_success>>
    /\ UNCHANGED <<genVars, parseVars, pdfVars>>

\* the texts the service answers with in a run of the main program: an
\* outline (two sections of one title in chapter A, chapter B empty), a
\* text that is no outline, and a text that is too short
OutlineText == "1. A\n  1.1. a\n  1.2. a\n2. B\n3. C\n  3.1. b"
ProseText   == "plain prose that is no outline"
MainResponses == {OutlineText, ProseText, Short19}
MainOutcomes ==
    {TextOutcome(t) : t \in MainResponses}
        \cup {NoTextOutcome, ErrorOutcome, AuthOutcome}

\* api_cache/ is empty, or holds the title text of an earlier run
MainInitialCaches ==
    {<<>>, CacheWrite(<<>>, Fingerprint(TitlePrompt), StrEntry(OutlineText))}

InitMain ==
    /\ cache \in MainInitialCaches
    /\ GenIdle
    /\ pc = "title"
    /\ book_title = ""
    /\ toc_raw_text = None
    /\ parsed_toc_structure = <<>>
    /\ all_sections_content = <<>>
    /\ chapter_i = 0
    /\ section_i = 0
    /\ genOrder = <<>>
    /\ stageFail = {}
    /\ pdf_success = "none"
    /\ docx_success = "none"
    /\ ParseOff
    /\ PdfOff

NextMain ==
    \/ main_title_call
    \/ main_title_return
    \/ main_toc_call
    \/ main_toc_return
    \/ main_chapter
    \/ main_section_call
    \/ main_section_return
    \/ main_create_pdf
    \/ main_create_docx
    \/ generate_lookup
    \/ \E o \in MainOutcomes : generate_attempt(o)
    \/ generate_sleep
    \/ \E w \in PutOutcomes : generate_finish(w)

SpecMain == InitMain /\ [][NextMain]_vars

----------------------------------------------------------------------------
(* Observations on a run of the main program.                              *)

AuthHit == \E f \in stageFail : f.cause = "auth"

\* the generate call of the stage waiting at pcWait has ended in failure
\* after using up its attempts, and its caller is about to take the result
ExhaustedReturn(pcWait) ==
    /\ pc = pcWait
    /\ gpc = "done"
    /\ Miss
    /\ ~Truthy(result)
    /\ FailCause = "exhausted"

\* the body stored for section title s of chapter title c
BodyOf(content, c, s) == OGet(OGet(content, c), s)
HasBody(content, c, s) == OHas(content, c) /\ OHas(OGet(content, c), s)

\* C6: an authentication error aborts the run: once a generate call of any
\* stage has ended in one, no external call is made any more and no output
\* is rendered.
C6_AuthErrorAbortsRun ==
    AuthHit => /\ CallEvents = <<>>
               /\ pdf_success # "True"
               /\ docx_success # "True"

\* C7: exhausting the attempts is never fatal: in the title stage, the
\* outline stage and every section stage the caller substitutes placeholder
\* content and the run goes on to the next stage.
C7_ExhaustionNeverFatal ==
    [][/\ (ExhaustedReturn("title_wait") /\ pc' # pc)
             => (book_title' = "Untitled Book" /\ pc' = "toc")
       /\ (ExhaustedReturn("toc_wait") /\ pc' # pc)
             => pc' # "exited"
       /\ (ExhaustedReturn("section_wait") /\ pc' # pc)
             => LET ch == parsed_toc_structure[chapter_i]
                IN  /\ BodyOf(all_sections_content', ch.title,
                              ch.secs[section_i])
                          = Placeholder(ch.secs[section_i])
                    /\ pc' \in {"section", "chapter"}]_vars

\* C7 as amended: exhaustion is answered by a placeholder in the title
\* stage ("Untitled Book") and in every section stage, and the run goes on;
\* in the outline stage it ends the run, before any section is generated
\* and with nothing rendered.
C7_ExhaustionFatalOnlyForOutline ==
    [][/\ (ExhaustedReturn("title_wait") /\ pc' # pc)
             => (book_title' = "Untitled Book" /\ pc' = "toc")
       /\ (ExhaustedReturn("toc_wait") /\ pc' # pc)
             => /\ pc' = "exited"
                /\ genOrder' = <<>>
                /\ pdf_success' = "none" /\ docx_success' = "none"
       /\ (ExhaustedReturn("section_wait") /\ pc' # pc)
             => LET ch == parsed_toc_structure[chapter_i]
                IN  /\ BodyOf(all_sections_content', ch.title,
                              ch.secs[section_i])
                          = Placeholder(ch.secs[section_i])
                    /\ pc' \in {"section", "chapter"}
       /\ (pc = "exited" => pc' = "exited")]_vars

C7_Witness ==
    /\ pc = "done"
    /\ \E f \in stageFail : f.stage = "title" /\ f.cause = "exhausted"
    /\ \E f \in stageFail : f.stage = "section" /\ f.cause = "exhausted"
    /\ book_title = "Untitled Book"

\* the (chapter index, section index) pairs of an outline in document order
RECURSIVE DocOrderFrom(_, _, _)
DocOrderFrom(toc, i, j) ==
    IF i > Len(toc) THEN <<>>
    ELSE IF j > Len(toc[i].secs) THEN DocOrderFrom(toc, i + 1, 1)
    ELSE <<[c |-> i, s |-> j]>> \o DocOrderFrom(toc, i, j + 1)
DocOrder == DocOrderFrom(parsed_toc_structure, 1, 1)

CallOrder == [k \in 1..Len(genOrder) |->
                 [c |-> genOrder[k].c, s |-> genOrder[k].s]]
SectionTitle(r) == parsed_toc_structure[r.c].secs[r.s]
\* the latest generate call made for the pair of call k
IsLatestForPair(k) ==
    \A m \in (k + 1)..Len(genOrder) :
        ~(genOrder[m].c = genOrder[k].c
            /\ SectionTitle(genOrder[m]) = SectionTitle(genOrder[k]))

\* needle occurs in hay
Contains(hay, needle) ==
    \E i \in 1..(Len(hay) - Len(needle) + 1) :
        SubSeq(hay, i, i + Len(needle) - 1) = needle

----------------------------------------------------------------------------
\* the digest separates the prompts of the model, as SHA-256 does
MainTitles == {"Untitled Book"} \cup
                  {generate_title(Some(strip(t))) : t \in MainResponses}
ModelPrompts ==
    GenPrompts \cup {TitlePrompt} \cup {TocPrompt(t) : t \in MainTitles}
        \cup {SectionPrompt(x[1], x[2], t) :
                 x \in {<<"a", "A">>, <<"b", "C">>}, t \in MainTitles}
FingerprintInjective ==
    \A p \in ModelPrompts, q \in ModelPrompts :
        Fingerprint(p) = Fingerprint(q) => p = q

\* C17: once the section bodies are assembled both renderers are invoked,
\* create_pdf first and create_docx whatever create_pdf returned; each of
\* them returns True or False, the program ends only after both have
\* returned, and at both invocations every section has its body.
C17_RenderersFailIndependently ==
    /\ pc = "pdf" => ENABLED main_create_pdf
    /\ pc = "docx" => /\ pdf_success \in {"True", "False"}
                      /\ ENABLED main_create_docx
    /\ pc = "done" => /\ pdf_success \in {"True", "False"}
                      /\ docx_success \in {"True", "False"}
    /\ pc = "exited" => pdf_success = "none" /\ docx_success = "none"
    /\ pdf_success # "none" => pc \in {"docx", "done"}
    /\ docx_success # "none" => pc = "done"
    /\ pc \in {"docx", "done"}
          => \A c \in 1..Len(parsed_toc_structure) :
                 \A k \in 1..Len(parsed_toc_structure[c].secs) :
                     HasBody(all_sections_content,
                             parsed_toc_structure[c].title,
                             parsed_toc_structure[c].secs[k])

\* the PDF failed and the DOCX was produced
C17_Witness ==
    /\ pc = "done"
    /\ pdf_success = "False"
    /\ docx_success = "True"

\* the opposite outcome, a state the program reaches as well
DocxFailedPdfProduced ==
    pc = "done" /\ pdf_success = "True" /\ docx_success = "False"

----------------------------------------------------------------------------
(* create_pdf(title, parsed_toc, all_content, filename, copyright_holder): *)
(* pass 1 lays out the content pages and fills page_map, pass 2 renders    *)
(* the TOC pages from page_map, pass 3 merges the two documents, and the   *)
(* finally clause removes the temporary files.  The title page, the        *)
(* copyright page and a chapter heading take one page each; a section      *)
(* (heading and body) may run over any number of page breaks.              *)

MaxPdfLines == 4   \* lines of an outline drawn for create_pdf
MaxGrow     == 1   \* page breaks inside one section

FRONT_PAGES == 2   \* "current_page > 2", "current_page - 2", "ch_page - 2"

Max(a, b) == IF a >= b THEN a ELSE b

\* str(n) for n >= 0
RECURSIVE Str(_)
Str(n) ==
    LET d == SubSeq("0123456789", (n % 10) + 1, (n % 10) + 1)
    IN  IF n < 10 THEN d ELSE Str(n \div 10) \o d

\* keys of page_map: (name, None) and (chapter_title, section_title)
Key(name, sec)    == [name |-> name, sec |-> sec]
TitleKey          == Key("TITLE", None)
CopyrightKey      == Key("COPYRIGHT", None)
ChapterKey(c)     == Key(c, None)
SectionKey(c, sc) == Key(c, Some(sc))

\* the dict page_map: entries [key, page] with distinct keys
PmHas(pm, k) == \E i \in 1..Len(pm) : pm[i].key = k
\* page_map[k] = v
PmSet(pm, k, v) ==
    IF PmHas(pm, k)
    THEN [i \in 1..Len(pm) |->
             IF pm[i].key = k THEN [key |-> k, page |-> v] ELSE pm[i]]
    ELSE Append(pm, [key |-> k, page |-> v])
\* page_map.get(k, default)
PmGet(pm, k, default) ==
    IF PmHas(pm, k)
    THEN pm[CHOOSE i \in 1..Len(pm) : pm[i].key = k].page
    ELSE default

\* PDF.footer on page current_page of a document: the running number it
\* prints, 0 when it prints nothing
footer(current_page) ==
    IF current_page > FRONT_PAGES THEN current_page - FRONT_PAGES ELSE 0

\* the pages of a document of n pages made with class PDF
PagesOf(doc, n) ==
    [i \in 1..n |-> [doc |-> doc, no |-> i, footer |-> footer(i)]]

\* lines 289 and 296: the page number of a TOC line
DisplayPageUnfloored(pm, k) == PmGet(pm, k, 0) - FRONT_PAGES
DisplayPage(pm, k) == Max(0, PmGet(pm, k, 0) - FRONT_PAGES)

\* lines 291 and 299: the text of the number cell
NumberCell(d) == IF d > 0 THEN Str(d) ELSE ""

CONTENT_TMP == "content_tmp.pdf"
TOC_TMP     == "toc_tmp.pdf"

\* the frame of create_pdf's steps
PdfFrame == UNCHANGED <<genVars, mainVars, parseVars>>

\* the except clause of line 314, or a "return False" inside the try: the
\* finally clause runs next
PdfFails ==
    /\ pdf_result' = "False"
    /\ pdf_pc' = "finally"

\* lines 227-241: locals, the content document and its fonts
pdf_begin(fonts_available) ==
    /\ pdf_pc = "begin"
    /\ IF fonts_available
       THEN /\ pdf_pc' = "front"
            /\ UNCHANGED pdf_result
       ELSE PdfFails
    /\ page_map' = <<>>
    /\ UNCHANGED <<pdf_parsed_toc, page_no, pdf_ci, pdf_si, laid, toc_page_no,
                   toc_entries, content_filename, toc_filename, files,
                   created, merged>>
    /\ UNCHANGED remove_failed
    /\ PdfFrame

\* lines 244-250: the title page and the copyright page
pdf_front ==
    /\ pdf_pc = "front"
    /\ page_no' = 2
    /\ page_map' = PmSet(PmSet(page_map, TitleKey, 1), CopyrightKey, 2)
    /\ laid' = <<[key |-> TitleKey, page |-> 1],
                 [key |-> CopyrightKey, page |-> 2]>>
    /\ pdf_ci' = 1
    /\ pdf_pc' = "chapter"
    /\ UNCHANGED <<pdf_parsed_toc, pdf_si, toc_page_no, toc_entries,
                   content_filename, toc_filename, files, created, merged,
                   pdf_result>>
    /\ UNCHANGED remove_failed
    /\ PdfFrame

\* lines 253-255: a chapter starts on a new page, which is recorded
pdf_chapter ==
    /\ pdf_pc = "chapter"
    /\ pdf_ci <= Len(pdf_parsed_toc)
    /\ LET ch == pdf_parsed_toc[pdf_ci]
           current_page == page_no + 1
       IN  /\ page_no' = current_page
           /\ page_map' = PmSet(page_map, ChapterKey(ch.title), current_page)
           /\ laid' = Append(laid, [key |-> ChapterKey(ch.title),
                                    page |-> current_page])
           /\ IF ch.secs = <<>>
              THEN /\ pdf_ci' = pdf_ci + 1
                   /\ UNCHANGED <<pdf_si, pdf_pc>>
              ELSE /\ pdf_si' = 1
                   /\ pdf_pc' = "section"
                   /\ UNCHANGED pdf_ci
    /\ UNCHANGED <<pdf_parsed_toc, toc_page_no, toc_entries, content_filename,
                   toc_filename, files, created, merged, pdf_result>>
    /\ UNCHANGED remove_failed
    /\ PdfFrame

\* line 257: the page a section is recorded on
RecordSectionSkipped(pm, c, sc, current_page) == pm
RecordSection(pm, c, sc, current_page) ==
    PmSet(pm, SectionKey(c, sc), current_page)

\* lines 256-274: a section is recorded on the current page, then its
\* heading and body are written, over grow automatic page breaks
pdf_section(grow) ==
    /\ pdf_pc = "section"
    /\ LET ch == pdf_parsed_toc[pdf_ci]
           section_title == ch.secs[pdf_si]
           current_page == page_no
       IN  /\ page_map' = RecordSection(page_map, ch.title, section_title,
                                        current_page)
           /\ laid' = Append(laid, [key |-> SectionKey(ch.title, section_title),
                                    page |-> current_page])
           /\ page_no' = page_no + grow
           /\ IF pdf_si < Len(ch.secs)
              THEN /\ pdf_si' = pdf_si + 1
                   /\ UNCHANGED <<pdf_ci, pdf_pc>>
              ELSE /\ pdf_ci' = pdf_ci + 1
                   /\ pdf_pc' = "chapter"
                   /\ UNCHANGED pdf_si
    /\ UNCHANGED <<pdf_parsed_toc, toc_page_no, toc_entries, content_filename,
                   toc_filename, files, created, merged, pdf_result>>
    /\ UNCHANGED remove_failed
    /\ PdfFrame

\* tempfile.mkstemp creating the file, then FPDF.output writing it
SaveOutcomes == {"ok", "mkstemp_fails", "output_fails"}

\* lines 276-277: the content document is saved to a temporary file
pdf_save_content(o) ==
    /\ pdf_pc = "chapter"
    /\ pdf_ci > Len(pdf_parsed_toc)
    /\ IF o = "mkstemp_fails"
       THEN /\ PdfFails
            /\ UNCHANGED <<content_filename, files, created>>
       ELSE /\ content_filename' = Some(CONTENT_TMP)
            /\ files' = files \cup {CONTENT_TMP}
            /\ created' = created \cup {CONTENT_TMP}
            /\ IF o = "output_fails"
               THEN PdfFails
               ELSE /\ pdf_pc' = "toc_begin"
                    /\ UNCHANGED pdf_result
    /\ UNCHANGED <<pdf_parsed_toc, page_map, page_no, pdf_ci, pdf_si, laid,
                   toc_page_no, toc_entries, toc_filename, merged>>
    /\ UNCHANGED remove_failed
    /\ PdfFrame

\* lines 281-286: the TOC document, its fonts, its first page and heading
pdf_toc_begin(o) ==
    /\ pdf_pc = "toc_begin"
    /\ IF o = "ok"
       THEN /\ toc_page_no' = 1
            /\ pdf_ci' = 1
            /\ pdf_pc' = "toc_chapter"
            /\ UNCHANGED pdf_result
       ELSE /\ PdfFails
            /\ UNCHANGED <<toc_page_no, pdf_ci>>
    /\ UNCHANGED <<pdf_parsed_toc, page_map, page_no, pdf_si, laid,
                   toc_entries, content_filename, toc_filename, files,
                   created, merged>>
    /\ UNCHANGED remove_failed
    /\ PdfFrame

\* an automatic page break of the TOC document before a line that no longer
\* fits: only on a page that already holds a line
TocPageFull(full) ==
    full /\ \E i \in 1..Len(toc_entries) : toc_entries[i].page = toc_page_no

\* one rendered TOC line: the key looked up, whether page_map held it, the
\* text of the line, the text of the number cell and the TOC page it is on
TocEntry(k, text, on_page) ==
    [key |-> k, found |-> PmHas(page_map, k), line |-> text,
     number |-> NumberCell(DisplayPage(page_map, k)), page |-> on_page]

\* lines 287-292: the TOC line of a chapter
pdf_toc_chapter(full) ==
    /\ pdf_pc = "toc_chapter"
    /\ pdf_ci <= Len(pdf_parsed_toc)
    /\ LET ch == pdf_parsed_toc[pdf_ci]
           chapter_num == pdf_ci
           toc_line == Str(chapter_num) \o ". " \o ch.title
           on_page == IF TocPageFull(full) THEN toc_page_no + 1
                      ELSE toc_page_no
       IN  /\ toc_page_no' = on_page
           /\ toc_entries' = Append(toc_entries,
                                TocEntry(ChapterKey(ch.title), toc_line, on_page))
           /\ IF ch.secs = <<>>
              THEN /\ pdf_ci' = pdf_ci + 1
                   /\ UNCHANGED <<pdf_si, pdf_pc>>
              ELSE /\ pdf_si' = 1
                   /\ pdf_pc' = "toc_section"
                   /\ UNCHANGED pdf_ci
    /\ UNCHANGED <<pdf_parsed_toc, page_map, page_no, laid, content_filename,
                   toc_filename, files, created, merged, pdf_result>>
    /\ UNCHANGED remove_failed
    /\ PdfFrame

\* lines 294-299: the TOC line of a section
pdf_toc_section(full) ==
    /\ pdf_pc = "toc_section"
    /\ LET ch == pdf_parsed_toc[pdf_ci]
           section_title == ch.secs[pdf_si]
           chapter_num == pdf_ci
           section_num == pdf_si
           toc_sec_line == "  " \o Str(chapter_num) \o "." \o Str(section_num)
                               \o " " \o section_title
           on_page == IF TocPageFull(full) THEN toc_page_no + 1
                      ELSE toc_page_no
       IN  /\ toc_page_no' = on_page
           /\ toc_entries' = Append(toc_entries,
                                TocEntry(SectionKey(ch.title, section_title),
                                         toc_sec_line, on_page))
           /\ IF pdf_si < Len(ch.secs)
              THEN /\ pdf_si' = pdf_si + 1
                   /\ UNCHANGED <<pdf_ci, pdf_pc>>
              ELSE /\ pdf_ci' = pdf_ci + 1
                   /\ pdf_pc' = "toc_chapter"
                   /\ UNCHANGED pdf_si
    /\ UNCHANGED <<pdf_parsed_toc, page_map, page_no, laid, content_filename,
                   toc_filename, files, created, merged, pdf_result>>
    /\ UNCHANGED remove_failed
    /\ PdfFrame

\* lines 301-302: the TOC document is saved to a temporary file
pdf_save_toc(o) ==
    /\ pdf_pc = "toc_chapter"
    /\ pdf_ci > Len(pdf_parsed_toc)
    /\ IF o = "mkstemp_fails"
       THEN /\ PdfFails
            /\ UNCHANGED <<toc_filename, files, created>>
       ELSE /\ toc_filename' = Some(TOC_TMP)
            /\ files' = files \cup {TOC_TMP}
            /\ created' = created \cup {TOC_TMP}
            /\ IF o = "output_fails"
               THEN PdfFails
               ELSE /\ pdf_pc' = "merge"
                    /\ UNCHANGED pdf_result
    /\ UNCHANGED <<pdf_parsed_toc, page_map, page_no, pdf_ci, pdf_si, laid,
                   toc_page_no, toc_entries, content_filename, merged>>
    /\ UNCHANGED remove_failed
    /\ PdfFrame

\* lines 307-310: the order in which pass 3 adds the pages to the writer
MergeFromFourthPage(content, toc) ==
    <<content[1], content[2]>> \o toc
        \o (IF Len(content) > 2 THEN SubSeq(content, 4, Len(content))
            ELSE <<>>)
Merge(content, toc) ==
    <<content[1], content[2]>> \o toc
        \o (IF Len(content) > 2 THEN SubSeq(content, 3, Len(content))
            ELSE <<>>)

\* lines 306-312: both temporary files are read back, merged and written
pdf_merge(o) ==
    /\ pdf_pc = "merge"
    /\ IF o = "ok"
       THEN /\ merged' = Merge(PagesOf("content", page_no),
                               PagesOf("toc", toc_page_no))
            /\ pdf_result' = "True"
            /\ pdf_pc' = "finally"
       ELSE /\ PdfFails
            /\ UNCHANGED merged
    /\ UNCHANGED <<pdf_parsed_toc, page_map, page_no, pdf_ci, pdf_si, laid,
                   toc_page_no, toc_entries, content_filename, toc_filename,
                   files, created>>
    /\ UNCHANGED remove_failed
    /\ PdfFrame

\* an exception raised by a layout or rendering call of pass 1 or pass 2,
\* caught at line 314
pdf_raise ==
    /\ pdf_pc \in {"front", "chapter", "section", "toc_chapter", "toc_section"}
    /\ PdfFails
    /\ UNCHANGED <<pdf_parsed_toc, page_map, page_no, pdf_ci, pdf_si, laid,
                   toc_page_no, toc_entries, content_filename, toc_filename,
                   files, created, merged>>
    /\ UNCHANGED remove_failed
    /\ PdfFrame

\* os.remove succeeding or raising OSError
RemoveOutcomes == {"ok", "oserror"}

\* lines 318-323 and 324-329: the files left after the removal of one
\* temporary file
RemoveTempNever(fs, fname, r) == fs
RemoveTemp(fs, fname, r) ==
    IF Truthy(fname) /\ fname.text \in fs /\ r = "ok"
    THEN fs \ {fname.text} ELSE fs

\* lines 315-329: the finally clause, then the return
pdf_finally(r1, r2) ==
    /\ pdf_pc = "finally"
    /\ files' = RemoveTemp(RemoveTemp(files, content_filename, r1),
                           toc_filename, r2)
    /\ remove_failed' =
          {f \in files : \/ content_filename = Some(f) /\ r1 = "oserror"
                         \/ toc_filename = Some(f) /\ r2 = "oserror"}
    /\ pdf_pc' = "returned"
    /\ UNCHANGED <<pdf_parsed_toc, page_map, page_no, pdf_ci, pdf_si, laid,
                   toc_page_no, toc_entries, content_filename, toc_filename,
                   created, merged, pdf_result>>
    /\ PdfFrame

----------------------------------------------------------------------------
(* SpecPdf: create_pdf on every outline parse_toc returns for a text of at *)
(* most MaxPdfLines lines drawn from PdfOutlineLines.                      *)

PdfOutlineLines == {"1. A", "2. B", "  1.1. a", "  1.2. b"}

PdfOutlineTexts ==
    {Join(ls) : ls \in UNION {[1..n -> PdfOutlineLines] : n \in 1..MaxPdfLines}}

PdfOutlines ==
    {parse_toc(t).toc : t \in {x \in PdfOutlineTexts : parse_toc(x).verdict = "ok"}}

InitPdf ==
    /\ pdf_pc = "begin"
    /\ pdf_parsed_toc \in PdfOutlines
    /\ page_map = <<>>
    /\ page_no = 0
    /\ pdf_ci = 0
    /\ pdf_si = 0
    /\ laid = <<>>
    /\ toc_page_no = 0
    /\ toc_entries = <<>>
    /\ content_filename = None
    /\ toc_filename = None
    /\ files = {}
    /\ created = {}
    /\ remove_failed = {}
    /\ merged = <<>>
    /\ pdf_result = "none"
    /\ cache = <<>>
    /\ GenIdle
    /\ MainOff
    /\ ParseOff

NextPdf ==
    \/ \E fonts_available \in BOOLEAN : pdf_begin(fonts_available)
    \/ pdf_front
    \/ pdf_chapter
    \/ \E grow \in 0..MaxGrow : pdf_section(grow)
    \/ \E o \in SaveOutcomes : pdf_save_content(o)
    \/ \E o \in {"ok", "fonts_missing", "error"} : pdf_toc_begin(o)
    \/ \E full \in BOOLEAN : pdf_toc_chapter(full)
    \/ \E full \in BOOLEAN : pdf_toc_section(full)
    \/ \E o \in SaveOutcomes : pdf_save_toc(o)
    \/ \E o \in {"ok", "read_fails", "write_fails"} : pdf_merge(o)
    \/ pdf_raise
    \/ \E r1, r2 \in RemoveOutcomes : pdf_finally(r1, r2)

SpecPdf == InitPdf /\ [][NextPdf]_vars

----------------------------------------------------------------------------
(* Observations on create_pdf.                                             *)

\* the chapters and sections of the outline in document order, one entry
\* per occurrence
RECURSIVE UnitsFrom(_, _, _)
UnitsFrom(toc, i, j) ==
    IF i > Len(toc) THEN <<>>
    ELSE IF j = 0
    THEN <<ChapterKey(toc[i].title)>> \o UnitsFrom(toc, i, 1)
    ELSE IF j > Len(toc[i].secs) THEN UnitsFrom(toc, i + 1, 0)
    ELSE <<SectionKey(toc[i].title, toc[i].secs[j])>>
             \o UnitsFrom(toc, i, j + 1)

OutlineUnits == UnitsFrom(pdf_parsed_toc, 1, 0)

\* pass 2 has begun
InTocPass ==
    \/ pdf_pc \in {"toc_chapter", "toc_section", "merge"}
    \/ toc_entries # <<>>

\* C12: TOC rendering starts only after pass 1 has laid out every chapter
\* and section of the outline and recorded a page for each; every key a TOC
\* line looks up is in page_map at the lookup, and the TOC lines are those
\* of the outline's units, in document order.
C12_TocAfterCompleteLayout ==
    /\ InTocPass
          => /\ \A u \in 1..Len(OutlineUnits) : PmHas(page_map, OutlineUnits[u])
             /\ [i \in 1..(Len(laid) - 2) |-> laid[i + 2].key] = OutlineUnits
    /\ \A i \in 1..Len(toc_entries) :
          /\ toc_entries[i].found
          /\ toc_entries[i].key = OutlineUnits[i]

C12_Witness ==
    /\ pdf_pc = "merge"
    /\ Len(toc_entries) = Len(OutlineUnits)
    /\ Len(pdf_parsed_toc) = 2
    /\ \E i \in 1..Len(toc_entries) : toc_entries[i].key.sec # None
    /\ \A i \in 1..Len(toc_entries) : toc_entries[i].found

\* the number a decimal numeral denotes ("" denotes 0)
DigitValue(c) == CHOOSE d \in 0..9 : Str(d) = c
RECURSIVE ParseNat(_)
ParseNat(t) ==
    IF t = "" THEN 0
    ELSE 10 * ParseNat(SubSeq(t, 1, Len(t) - 1)) + DigitValue(Char(t, Len(t)))

\* the physical page a page map holds for a key, 0 for a key it lacks
PhysicalPage(pm, k) ==
    LET hits == {i \in 1..Len(pm) : pm[i].key = k}
    IN  IF hits = {} THEN 0 ELSE pm[CHOOSE i \in hits : TRUE].page

\* the number cell shows want, a blank standing for 0
Shows(cell, want) ==
    IF want = 0 THEN cell = "" ELSE cell # "" /\ ParseNat(cell) = want

\* page maps for the lookup taken alone: empty, or one entry on any page
MaxProbePage == 13
ProbeKeys == {ChapterKey("A"), SectionKey("A", "a")}
ProbeMaps ==
    {<<>>} \cup {<<[key |-> k, page |-> n]>> :
                    k \in ProbeKeys, n \in 0..MaxProbePage}

\* C13: the number a TOC line shows is max(0, physical page - 2), with
\* physical page 0 for a unit page_map lacks; 0 is shown as a blank cell,
\* and the lookup of a missing key yields a value, not an error.  Stated of
\* every TOC line rendered and of the lookup on every probe map.
C13_TocNumberIsPageMinusTwoFlooredAtZero ==
    /\ \A i \in 1..Len(toc_entries) :
          Shows(toc_entries[i].number,
                Max(0, PhysicalPage(page_map, toc_entries[i].key) - 2))
    /\ \A pm \in ProbeMaps, k \in ProbeKeys :
          /\ DisplayPage(pm, k) = Max(0, PhysicalPage(pm, k) - 2)
          /\ Shows(NumberCell(DisplayPage(pm, k)),
                   Max(0, PhysicalPage(pm, k) - 2))

\* a TOC was rendered in full whose first line shows 1 and which has a
\* section on a later page than its chapter
C13_Witness ==
    /\ pdf_pc = "merge"
    /\ toc_entries[1].number = "1"
    /\ \E i \in 1..Len(toc_entries) :
          /\ toc_entries[i].key.sec # None
          /\ ParseNat(toc_entries[i].number) >= 3
          /\ PhysicalPage(page_map, toc_entries[i].key)
                > PhysicalPage(page_map, ChapterKey(toc_entries[i].key.name))

\* pass 1 is over and the content document was saved
LayoutDone == pdf_pc = "toc_begin" \/ InTocPass

NonDecreasing(q) == \A i \in 1..(Len(q) - 1) : q[i] <= q[i + 1]

\* the addressable units in document order: title, copyright, then each
\* chapter followed by its sections
AddressableUnits == <<TitleKey, CopyrightKey>> \o OutlineUnits

\* C14: after the layout pass, the pages page_map holds for the addressable
\* units, read in document order, never decrease.
C14_PageMapMonotone ==
    LayoutDone
        => NonDecreasing([i \in 1..Len(AddressableUnits) |->
                             PhysicalPage(page_map, AddressableUnits[i])])

\* the pages recorded at the moment each unit is laid out never decrease
PagesRecordedInOrder ==
    NonDecreasing([i \in 1..Len(laid) |-> laid[i].page])

\* with no unit occurring twice, page_map is what was recorded
PageMapMonotoneWhenUnitsDistinct ==
    (LayoutDone /\ \A i, j \in 1..Len(AddressableUnits) :
                       AddressableUnits[i] = AddressableUnits[j] => i = j)
        => /\ page_map = laid
           /\ NonDecreasing([i \in 1..Len(AddressableUnits) |->
                                PhysicalPage(page_map, AddressableUnits[i])])

\* the page of document doc with number no
Page(doc, no) == [doc |-> doc, no |-> no, footer |-> footer(no)]

\* C15: the merged sequence is content page 1 (title), content page 2
\* (copyright), the k >= 1 TOC pages in their order, then content pages
\* 3..n in their order; each page of either document occurs exactly once,
\* n + k pages in all.
C15_MergeOrder ==
    pdf_result = "True"
        => LET n == page_no
               k == toc_page_no
           IN  /\ k >= 1 /\ n >= 2
               /\ Len(merged) = n + k
               /\ merged[1] = Page("content", 1)
               /\ merged[2] = Page("content", 2)
               /\ PhysicalPage(page_map, TitleKey) = 1
               /\ PhysicalPage(page_map, CopyrightKey) = 2
               /\ \A j \in 1..k : merged[2 + j] = Page("toc", j)
               /\ \A i \in 3..n : merged[k + i] = Page("content", i)
               /\ \A a, b \in 1..Len(merged) : merged[a] = merged[b] => a = b

C15_Witness ==
    /\ pdf_result = "True"
    /\ toc_page_no >= 2
    /\ page_no >= 5
    /\ Len(merged) = page_no + toc_page_no

\* C16: on every exit path of create_pdf, every temporary file created
\* during the call no longer exists when the call returns.
C16_TempFilesGoneOnReturn ==
    pdf_pc = "returned" => created \cap files = {}

\* C16, amended: on every exit path the finally clause tries to remove
\* every temporary file created during the call, and when the call returns
\* such a file exists only if its os.remove raised OSError.
C16_TempFilesGoneUnlessRemoveFails ==
    pdf_pc = "returned"
        => /\ created \cap files = remove_failed
           /\ \A f \in created : content_filename = Some(f) \/ toc_filename = Some(f)
           /\ pdf_result \in {"True", "False"}

\* the merge failed after both temporary files were written, and both are
\* gone at the return
C16_Witness ==
    /\ pdf_pc = "returned"
    /\ pdf_result = "False"
    /\ created = {CONTENT_TMP, TOC_TMP}
    /\ merged = <<>>
    /\ files = {}

\* the pages of the merged sequence carry running numbers as intended:
\* none on the title page, the copyright page and the TOC pages, and on
\* the chapter and section pages 1, 2, ... in order
RunningNumbersAsIntended ==
    /\ merged[1].footer = 0
    /\ merged[2].footer = 0
    /\ \A i \in 1..Len(merged) :
          /\ merged[i].doc = "toc" => merged[i].footer = 0
          /\ (merged[i].doc = "content" /\ merged[i].no > 2)
                => merged[i].footer = merged[i].no - 2
    /\ \A a, b \in 1..Len(merged) :
          (merged[a].footer # 0 /\ merged[a].footer = merged[b].footer)
             => a = b

\* C19: in the merged page sequence running numbers are printed only on
\* chapter and section pages, from 1 on the first chapter page and one more
\* on each page after it; the title page, the copyright page and every TOC
\* page carry none, for every TOC length, and no number is printed twice.
C19_RunningNumbersOnlyOnContent ==
    pdf_result = "True" => RunningNumbersAsIntended

\* with a TOC of one or two pages the numbers are as intended
RunningNumbersWhenTocIsShort ==
    (pdf_result = "True" /\ toc_page_no <= FRONT_PAGES)
        => RunningNumbersAsIntended

\* the i-th TOC line shows the running number of the content page on which
\* pass 1 recorded the i-th unit of the outline
TocLineMatchesFooter(i) ==
    LET recorded == laid[i + 2].page
    IN  /\ toc_entries[i].key = laid[i + 2].key
        /\ toc_entries[i].number # ""
        /\ ParseNat(toc_entries[i].number) >= 1
        /\ ParseNat(toc_entries[i].number) = footer(recorded)

\* C22: for every chapter and section of the outline the TOC shows a number
\* that is at least 1 and is the running number printed in the footer of
\* the content page on which the layout pass recorded that occurrence of
\* the unit, also when a section title occurs twice in one chapter.
C22_TocNumberIsFooterNumber ==
    \A i \in 1..Len(toc_entries) : TocLineMatchesFooter(i)

\* with no unit occurring twice every TOC line shows the footer number
TocNumberIsFooterNumberWhenUnitsDistinct ==
    (\A i, j \in 1..Len(OutlineUnits) :
         OutlineUnits[i] = OutlineUnits[j] => i = j)
        => \A i \in 1..Len(toc_entries) : TocLineMatchesFooter(i)

====
